---- MODULE Spec2Model ----
(***************************************************************************)
(* Pivot calibration (sksurgerycalibration/algorithms/pivot.py).           *)
(*                                                                         *)
(* Numeric abstraction.  A tracking array is its numpy shape together with *)
(* the identity of the pose held in each slot of its first axis.  The      *)
(* values numpy computes (singular values, Euclidean norms) are inputs of  *)
(* the environment drawn from small sets; everything the code itself       *)
(* decides (shape checks, routing, rank thresholding, inlier counting,     *)
(* consensus, best-model bookkeeping, exceptions) is modelled as written.  *)
(*   singular values : integers, in units of 0.001                         *)
(*   distances       : integers, in millimetres                           *)
(*   consensus       : integers, in quarters (1 = 0.25, 4 = 1.0)           *)
(***************************************************************************)
EXTENDS Integers, Sequences, FiniteSets, TLC

VARIABLES
    pc,                         \* position of the running call
    tracking_matrices,          \* the argument: [ndarray, shape, poses]
    configuration,              \* the dispatcher's configuration argument
    number_iterations,          \* arguments of pivot_calibration_with_ransac
    error_threshold,
    concensus_threshold,
    early_exit,
    iter_counter,               \* locals of pivot_calibration_with_ransac
    highest_number_of_inliers,
    best,                       \* (best_pointer_offset, best_pivot_location,
                                \*  best_residual_error)
    candidate,                  \* (pointer_offset, pivot_location) of the sample
    outcome,                    \* how the call ended: a return or a raise
    log,                        \* history: one entry per finished iteration
    samples_drawn,              \* history: calls of random.sample
    aos_solves                  \* history: calls of pivot_calibration

vars == <<pc, tracking_matrices, configuration, number_iterations,
          error_threshold, concensus_threshold, early_exit, iter_counter,
          highest_number_of_inliers, best, candidate, outcome, log,
          samples_drawn, aos_solves>>

-----------------------------------------------------------------------------
(* Bounds of the model.                                                    *)

MaxN == 3                       \* most poses in a tracking array
MaxIter == 2                    \* largest number_iterations

-----------------------------------------------------------------------------
(* Values.                                                                 *)

None == [none |-> TRUE]

Min(a, b) == IF a < b THEN a ELSE b

Range(f) == {f[i] : i \in DOMAIN f}

RECURSIVE Product(_)
Product(seq) == IF seq = <<>> THEN 1 ELSE Head(seq) * Product(Tail(seq))

\* Sizes an axis can have: 4 (right), 3 (a 3x4 or 4x3 array), 1 (a trailing
\* axis of length one).
Dims == {1, 3, 4}

Array(isnd, shp, ps) == [ndarray |-> isnd, shape |-> shp, poses |-> ps]

\* tracking_matrices[indexes] with a list of indexes into the first axis:
\* the first axis becomes the picked slots, the other axes are kept.  The
\* slots are taken in increasing order; nothing below depends on the order.
RECURSIVE Ascending(_)
Ascending(S) ==
    IF S = {} THEN <<>>
    ELSE LET m == CHOOSE x \in S : \A y \in S : x <= y
         IN <<m>> \o Ascending(S \ {m})

Take(tm, idx) ==
    LET picked == Ascending(idx)
    IN Array(tm.ndarray, <<Len(picked)>> \o Tail(tm.shape),
             [i \in 1..Len(picked) |-> tm.poses[picked[i]]])

Raise(exc, msg) == [kind |-> "raise", exc |-> exc, msg |-> msg, ran |-> "none"]

-----------------------------------------------------------------------------
(* replace_small_values (pivot.py 117-133).                                *)

\* The threshold pivot_calibration_aos passes: 0.01, in units of 0.001.
RankThreshold == 10

\* The loop "for index, item in enumerate(the_list)": the list is changed in
\* place and the items that are kept are counted.
RECURSIVE replace_small_values_from(_, _, _, _, _)
replace_small_values_from(the_list, threshold, replacement_value, index, rank) ==
    IF index > Len(the_list)
    THEN [rank |-> rank, the_list |-> the_list]
    ELSE IF the_list[index] < threshold
         THEN replace_small_values_from(
                  [the_list EXCEPT ![index] = replacement_value],
                  threshold, replacement_value, index + 1, rank)
         ELSE replace_small_values_from(
                  the_list, threshold, replacement_value, index + 1, rank + 1)

\* replace_small_values with the count moved out of the else branch: every
\* item is counted, replaced or not.
replace_small_values_counts_all(the_list, threshold, replacement_value) ==
    [rank |-> Len(the_list),
     the_list |-> replace_small_values_from(the_list, threshold,
                                            replacement_value, 1, 0).the_list]

replace_small_values(the_list, threshold, replacement_value) ==
    replace_small_values_from(the_list, threshold, replacement_value, 1, 0)

-----------------------------------------------------------------------------
(* pivot_calibration_aos (pivot.py 64-114).                                *)

\* Singular values numpy can hand back: exactly zero, just below the
\* threshold, the threshold itself (the smallest value that is kept), and a
\* well-conditioned value (1.0).
SVals == {0, 9, 10, 1000}

\* np.linalg.svd(a_values, full_matrices=False) of the 3N x 6 matrix A gives
\* min(3N, 6) singular values, largest first.  The three columns of A that
\* stack -I are orthogonal and of length sqrt(N), so the three leading
\* singular values are at least sqrt(N) >= 1 whatever the poses are; the
\* other three can be anything from zero up.
Leading == <<1000, 1000, 1000>>

Trailing ==
    {s \in [1..3 -> SVals] : \A i \in 1..2 : s[i] >= s[i + 1]}

SV3 == {Leading}
SV6 == {Leading \o s : s \in Trailing}

\* When every pose of the array carries the same rotation block R, A is N
\* copies of [R | -I], its rank is 3, and the last three singular values
\* are zero.
SingularValues(tm) ==
    LET number_of_matrices == tm.shape[1]
        all == IF Min(3 * number_of_matrices, 6) = 3 THEN SV3 ELSE SV6
    IN IF Cardinality(Range(tm.poses)) = 1
       THEN {s \in all : \A i \in DOMAIN s : i > 3 => s[i] = 0}
       ELSE all

\* The (pointer_offset, pivot_location, residual_error) computed from an
\* array: a function of the poses the array holds.
Solution(tm) == [solved_from |-> Range(tm.poses)]

\* a_first and b_values are reshaped to 3N rows; numpy raises ValueError when
\* the sizes differ, which is the case for every array with further axes of
\* total size other than one.
ReshapeFits(tm) ==
    LET number_of_matrices == tm.shape[1]
        further == SubSeq(tm.shape, 4, Len(tm.shape))
    IN number_of_matrices * 3 * 3 * Product(further)
           = (3 * number_of_matrices) * 3

\* Line 97: the denominators of diag(1 / s_values), taken from s_values as
\* the svd returned them; replace_small_values runs later, at line 101.
Reciprocals(s_values) == s_values

pivot_calibration_aos(tm, s_values) ==
    LET recip_of == Reciprocals(s_values)
        replaced == replace_small_values(s_values, RankThreshold, 0)
        rank == replaced.rank
    IN IF ~ReshapeFits(tm)
       THEN [kind |-> "raise", exc |-> "ValueError",
             msg |-> "cannot reshape array", ran |-> "aos",
             svd |-> <<>>, recip_of |-> <<>>, s_values |-> <<>>]
       ELSE IF rank < 6
       THEN [kind |-> "raise", exc |-> "ValueError",
             msg |-> "PivotCalibration: Failed. Rank < 6", ran |-> "aos",
             svd |-> s_values, recip_of |-> recip_of,
             s_values |-> replaced.the_list]
       ELSE [kind |-> "return", value |-> Solution(tm), ran |-> "aos",
             svd |-> s_values, recip_of |-> recip_of,
             s_values |-> replaced.the_list]

-----------------------------------------------------------------------------
(* pivot_calibration (pivot.py 8-62).                                      *)

\* configuration.get(key, default)
Get(config, key, default) ==
    IF key \in DOMAIN config THEN config[key] ELSE default

\* Lines 26-33.  shape[1] and shape[2] of an array with fewer axes raise
\* IndexError (tuple index out of range).
ShapeCheck(tm) ==
    IF ~tm.ndarray
    THEN Raise("TypeError", "tracking_matrices is not a numpy array'")
    ELSE IF Len(tm.shape) < 2
    THEN Raise("IndexError", "tuple index out of range")
    ELSE IF tm.shape[2] # 4
    THEN Raise("ValueError", "tracking_matrices should have 4 rows per matrix")
    ELSE IF Len(tm.shape) < 3
    THEN Raise("IndexError", "tuple index out of range")
    ELSE IF tm.shape[3] # 4
    THEN Raise("ValueError",
               "tracking_matrices should have 4 columns per matrix")
    ELSE None

\* Lines 35-46.
Route(config) ==
    IF config # None
    THEN LET method == Get(config, "method", "aos")
         IN [use_algebraic_one_step |-> (method = "aos"),
             use_ransac |-> (method # "aos" /\ method = "ransac")]
    ELSE [use_algebraic_one_step |-> TRUE, use_ransac |-> FALSE]

\* RansacArguments with the defaults of error_threshold and
\* consensus_threshold exchanged.
RansacArguments_swapped_defaults(config) ==
    [number_iterations   |-> Get(config, "number_iterations", 10),
     error_threshold     |-> Get(config, "error_threshold", 1),
     concensus_threshold |-> Get(config, "consensus_threshold", 4),
     early_exit          |-> Get(config, "early_exit", FALSE)]

\* Lines 52-56: the arguments handed to pivot_calibration_with_ransac.
RansacArguments(config) ==
    [number_iterations   |-> Get(config, "number_iterations", 10),
     error_threshold     |-> Get(config, "error_threshold", 4),
     concensus_threshold |-> Get(config, "consensus_threshold", 1),
     early_exit          |-> Get(config, "early_exit", FALSE)]

\* The whole function.  s_values is what the svd returns should the call
\* reach pivot_calibration_aos.  The call of pivot_calibration_with_ransac is
\* a tail call: the outcome names the callee and its arguments, and Spec
\* below runs that function.
pivot_calibration(tm, config, s_values) ==
    LET checked == ShapeCheck(tm)
        route == Route(config)
    IN IF checked # None THEN checked
       ELSE IF route.use_algebraic_one_step
       THEN pivot_calibration_aos(tm, s_values)
       ELSE IF route.use_ransac
       THEN [kind |-> "call", ran |-> "ransac",
             args |-> RansacArguments(config)]
       ELSE [kind |-> "raise", exc |-> "ValueError",
             msg |-> "method key set to unknown method; ",
             arg |-> Get(config, "method", "aos"), ran |-> "none"]

-----------------------------------------------------------------------------
(* Inputs.                                                                 *)

\* An argument that is not a numpy array (a list, say).
NotArray == Array(FALSE, <<>>, <<>>)

\* n poses with pairwise different rotation blocks.
DistinctPoses(n) == [i \in 1..n |-> i]

\* numpy shapes of 1 to maxrank axes whose first axis is n.
Shapes(n, dims, maxrank) ==
    {<<n>> \o t : t \in UNION {[1..k -> dims] : k \in 0..(maxrank - 1)}}

NeverStarted == [kind |-> "running"]

Idle ==
    /\ number_iterations = 0
    /\ error_threshold = 0
    /\ concensus_threshold = 0
    /\ early_exit = FALSE
    /\ iter_counter = 0
    /\ highest_number_of_inliers = 0
    /\ best = None
    /\ candidate = None
    /\ log = <<>>
    /\ samples_drawn = 0
    /\ aos_solves = 0

-----------------------------------------------------------------------------
(* SpecDispatch: one call of pivot_calibration.                            *)

Methods == {"aos", "ransac", "algebraic_one_step", "bogus"}

FullConfigurations ==
    [method : Methods, number_iterations : {7}, error_threshold : {2},
     consensus_threshold : {3}, early_exit : {TRUE}]

\* Every dictionary holding some of the keys, and no dictionary at all.
Configurations ==
    {None} \cup {[k \in keys |-> full[k]] :
                    full \in FullConfigurations,
                    keys \in SUBSET DOMAIN [method |-> 0, number_iterations |-> 0,
                                            error_threshold |-> 0,
                                            consensus_threshold |-> 0,
                                            early_exit |-> 0]}

DispatchArrays ==
    {NotArray} \cup
    {Array(TRUE, shp, DistinctPoses(shp[1])) :
        shp \in UNION {Shapes(n, Dims, 4) : n \in 1..MaxN}}

InitDispatch ==
    /\ pc = "pivot_calibration"
    /\ tracking_matrices \in DispatchArrays
    /\ configuration \in Configurations
    /\ outcome = NeverStarted
    /\ Idle

\* What the svd hands back, for the arrays that can reach it.
SvdOf(tm) == IF tm.ndarray THEN SingularValues(tm) ELSE {<<>>}

Dispatch ==
    /\ pc = "pivot_calibration"
    /\ \E s_values \in SvdOf(tracking_matrices) :
           outcome' = pivot_calibration(tracking_matrices, configuration,
                                        s_values)
    /\ pc' = "done"
    /\ UNCHANGED <<tracking_matrices, configuration, number_iterations,
                   error_threshold, concensus_threshold, early_exit,
                   iter_counter, highest_number_of_inliers, best, candidate,
                   log, samples_drawn, aos_solves>>

NextDispatch == Dispatch

SpecDispatch == InitDispatch /\ [][NextDispatch]_vars

-----------------------------------------------------------------------------
(* SpecAos: one call of pivot_calibration_aos on an N x 4 x 4 array (or an  *)
(* N x 4 x 4 x d one, which passes the dispatcher's check as well).  The    *)
(* poses are named by their rotation block, so that arrays repeating one    *)
(* rotation occur.                                                          *)

AosArrays ==
    {Array(TRUE, <<Len(ps), 4, 4>> \o further, ps) :
        further \in {<<>>, <<1>>, <<3>>},
        ps \in UNION {[1..n -> 1..MaxN] : n \in 1..MaxN}}

InitAos ==
    /\ pc = "pivot_calibration_aos"
    /\ tracking_matrices \in AosArrays
    /\ configuration = None
    /\ outcome = NeverStarted
    /\ Idle

AosCall ==
    /\ pc = "pivot_calibration_aos"
    /\ \E s_values \in SingularValues(tracking_matrices) :
           outcome' = pivot_calibration_aos(tracking_matrices, s_values)
    /\ pc' = "done"
    /\ UNCHANGED <<tracking_matrices, configuration, number_iterations,
                   error_threshold, concensus_threshold, early_exit,
                   iter_counter, highest_number_of_inliers, best, candidate,
                   log, samples_drawn, aos_solves>>

NextAos == AosCall

SpecAos == InitAos /\ [][NextAos]_vars

-----------------------------------------------------------------------------
(* Spec: one call of pivot_calibration_with_ransac (pivot.py 136-218).     *)

\* Line 164.
minimum_matrices_required == 3

\* Distances np.linalg.norm can hand back, in millimetres: on the pivot, and
\* at the largest error_threshold of Init (which is not below it).
Dists == {0, 2}

RansacArrays ==
    {NotArray} \cup
    {Array(TRUE, shp, DistinctPoses(shp[1])) :
        shp \in UNION {Shapes(n, {3, 4}, 3) : n \in 1..MaxN}}

Init ==
    /\ pc = "pivot_calibration_with_ransac"
    /\ tracking_matrices \in RansacArrays
    /\ configuration = None
    /\ number_iterations \in 0..MaxIter
    /\ error_threshold \in {-1, 0, 2}
    /\ concensus_threshold \in {-1, 0, 2, 4, 5}
    /\ early_exit \in BOOLEAN
    /\ iter_counter = 0
    /\ highest_number_of_inliers = 0
    /\ best = None
    /\ candidate = None
    /\ outcome = NeverStarted
    /\ log = <<>>
    /\ samples_drawn = 0
    /\ aos_solves = 0

\* An exception leaving pivot_calibration_with_ransac; site names the
\* statement it comes from.
RaiseAt(site, exc, msg) ==
    [kind |-> "raise", exc |-> exc, msg |-> msg, site |-> site]

\* Validate with the first comparison written "<= 1", as the message of
\* line 154 words it.
Validate_iterations_above_one(iterations, error, concensus, tm) ==
    IF iterations <= 1
    THEN RaiseAt("validation", "ValueError",
                 "The number of iterations must be > 1")
    ELSE IF error < 0
    THEN RaiseAt("validation", "ValueError",
                 "The error threshold must be a positive distance.")
    ELSE IF concensus < 0 \/ concensus > 4
    THEN RaiseAt("validation", "ValueError",
                 "The concensus threshold must be [0-1] as percentage")
    ELSE IF ~tm.ndarray
    THEN RaiseAt("validation", "TypeError",
                 "tracking_matrices is not a numpy array'")
    ELSE None

\* Lines 153-160: the order of the four checks.
Validate(iterations, error, concensus, tm) ==
    IF iterations < 1
    THEN RaiseAt("validation", "ValueError",
                 "The number of iterations must be > 1")
    ELSE IF error < 0
    THEN RaiseAt("validation", "ValueError",
                 "The error threshold must be a positive distance.")
    ELSE IF concensus < 0 \/ concensus > 4
    THEN RaiseAt("validation", "ValueError",
                 "The concensus threshold must be [0-1] as percentage")
    ELSE IF ~tm.ndarray
    THEN RaiseAt("validation", "TypeError",
                 "tracking_matrices is not a numpy array'")
    ELSE None

\* Lines 153-169.
RansacValidate ==
    /\ pc = "pivot_calibration_with_ransac"
    /\ LET failure == Validate(number_iterations, error_threshold,
                               concensus_threshold, tracking_matrices)
       IN IF failure # None
          THEN /\ outcome' = failure
               /\ pc' = "done"
               /\ UNCHANGED <<iter_counter, highest_number_of_inliers, best>>
          ELSE /\ iter_counter' = 0
               /\ highest_number_of_inliers' = -1
               /\ best' = None
               /\ pc' = "loop"
               /\ UNCHANGED outcome
    /\ UNCHANGED <<tracking_matrices, configuration, number_iterations,
                   error_threshold, concensus_threshold, early_exit,
                   candidate, log, samples_drawn, aos_solves>>

\* random.sample(population, k): k different members, and ValueError when
\* the population has fewer than k.
Samples(population, k) == {S \in SUBSET population : Cardinality(S) = k}

\* The except clause naming the wrong exception.
Caught_TypeError(r) == r.kind = "raise" /\ r.exc = "TypeError"

\* The "except ValueError" clause of line 178.
Caught(r) == r.kind = "raise" /\ r.exc = "ValueError"

\* What pivot_calibration(tm) can do for its caller, over everything the svd
\* can hand back: raise, or return a solution.
Calls(tm) ==
    {LET r == pivot_calibration(tm, None, s_values)
     IN IF r.kind = "raise" THEN Raise(r.exc, r.msg)
        ELSE [kind |-> "return", value |-> r.value] :
        s_values \in SingularValues(tm)}

\* Lines 171-180: the sample is drawn and pivot_calibration is tried on it.
RansacSample ==
    /\ pc = "loop"
    /\ iter_counter < number_iterations
    /\ LET number_of_matrices == tracking_matrices.shape[1]
       IN IF number_of_matrices < minimum_matrices_required
          THEN /\ outcome' = RaiseAt("sampling", "ValueError",
                       "Sample larger than population or is negative")
               /\ pc' = "done"
               /\ UNCHANGED <<iter_counter, candidate, log, samples_drawn,
                              aos_solves>>
          ELSE \E indexes \in Samples(1..number_of_matrices,
                                      minimum_matrices_required) :
               LET sample == Take(tracking_matrices, indexes)
               IN \E r \in Calls(sample) :
                     /\ samples_drawn' = samples_drawn + 1
                     /\ aos_solves' = aos_solves + 1
                     /\ IF Caught(r)
                        THEN /\ log' = Append(log, [status |-> "failed",
                                                    inlier_indices |-> {}])
                             /\ iter_counter' = iter_counter + 1
                             /\ pc' = "loop"
                             /\ UNCHANGED <<candidate, outcome>>
                        ELSE IF r.kind = "raise"
                        THEN /\ outcome' = RaiseAt("sample", r.exc, r.msg)
                             /\ pc' = "done"
                             /\ UNCHANGED <<iter_counter, candidate, log>>
                        ELSE /\ candidate' = r.value
                             /\ pc' = "score"
                             /\ UNCHANGED <<iter_counter, outcome, log>>
    /\ UNCHANGED <<tracking_matrices, configuration, number_iterations,
                   error_threshold, concensus_threshold, early_exit,
                   highest_number_of_inliers, best>>

\* Line 195 and the comparison of lines 198 and 206:
\* number_of_inliers / number_of_matrices > concensus_threshold.
Consensus(number_of_inliers, number_of_matrices, concensus) ==
    4 * number_of_inliers > concensus * number_of_matrices

\* Improves with ">=" for ">": an equal count replaces the best model.
Improves_on_ties(number_of_inliers, number_of_matrices, concensus, highest) ==
    /\ Consensus(number_of_inliers, number_of_matrices, concensus)
    /\ number_of_inliers >= highest

\* Improves without the consensus test.
Improves_without_consensus(inliers, matrices, concensus, highest) ==
    inliers > highest

\* Lines 198-199.
Improves(number_of_inliers, number_of_matrices, concensus, highest) ==
    /\ Consensus(number_of_inliers, number_of_matrices, concensus)
    /\ number_of_inliers > highest

\* Lines 186-193: norm[matrix_counter] is the distance of pose
\* matrix_counter's tip from the candidate pivot.
Inliers(norm, error) ==
    {matrix_counter \in DOMAIN norm : norm[matrix_counter] < error}

\* ExitsEarly without the early_exit flag.
ExitsEarly_always(number_of_inliers, number_of_matrices, concensus, early) ==
    Consensus(number_of_inliers, number_of_matrices, concensus)

\* Line 206.
ExitsEarly(number_of_inliers, number_of_matrices, concensus, early) ==
    Consensus(number_of_inliers, number_of_matrices, concensus) /\ early

\* Lines 184-207: every pose is scored against the candidate, the best model
\* is refitted on the inliers when they improve on it, and the function
\* returns at once when early_exit asks for it.
RansacScore ==
    /\ pc = "score"
    /\ LET number_of_matrices == tracking_matrices.shape[1]
       IN \E inlier_indices \in
              {Inliers(norm, error_threshold) :
                  norm \in [1..number_of_matrices -> Dists]} :
          LET number_of_inliers == Cardinality(inlier_indices)
              entry == [status |-> "scored",
                        inlier_indices |-> inlier_indices]
              leave == ExitsEarly(number_of_inliers, number_of_matrices,
                                  concensus_threshold, early_exit)
          IN IF Improves(number_of_inliers, number_of_matrices,
                         concensus_threshold, highest_number_of_inliers)
             THEN LET inlier_matrices == Take(tracking_matrices,
                                              inlier_indices)
                  IN \E r \in Calls(inlier_matrices) :
                        /\ highest_number_of_inliers' = number_of_inliers
                        /\ aos_solves' = aos_solves + 1
                        /\ IF r.kind = "raise"
                           THEN /\ outcome' = RaiseAt("refit", r.exc, r.msg)
                                /\ pc' = "done"
                                /\ log' = Append(log, entry)
                                /\ UNCHANGED <<best, iter_counter>>
                           ELSE /\ best' = r.value
                                /\ log' = Append(log, entry)
                                /\ IF leave
                                   THEN /\ outcome' = [kind |-> "return",
                                                       value |-> r.value]
                                        /\ pc' = "done"
                                        /\ UNCHANGED iter_counter
                                   ELSE /\ iter_counter' = iter_counter + 1
                                        /\ pc' = "loop"
                                        /\ UNCHANGED outcome
             ELSE /\ log' = Append(log, entry)
                  /\ IF leave
                     THEN /\ outcome' = [kind |-> "return", value |-> best]
                          /\ pc' = "done"
                          /\ UNCHANGED iter_counter
                     ELSE /\ iter_counter' = iter_counter + 1
                          /\ pc' = "loop"
                          /\ UNCHANGED outcome
                  /\ UNCHANGED <<highest_number_of_inliers, best, aos_solves>>
    /\ UNCHANGED <<tracking_matrices, configuration, number_iterations,
                   error_threshold, concensus_threshold, early_exit,
                   candidate, samples_drawn>>

\* Lines 209-218: the loop has used up its iterations.
RansacFinish ==
    /\ pc = "loop"
    /\ iter_counter >= number_iterations
    /\ outcome' = IF best = None
                  THEN RaiseAt("finish", "ValueError",
                               "Failed to find a model using RANSAC.")
                  ELSE [kind |-> "return", value |-> best]
    /\ pc' = "done"
    /\ UNCHANGED <<tracking_matrices, configuration, number_iterations,
                   error_threshold, concensus_threshold, early_exit,
                   iter_counter, highest_number_of_inliers, best, candidate,
                   log, samples_drawn, aos_solves>>

Next == RansacValidate \/ RansacSample \/ RansacScore \/ RansacFinish

Spec == Init /\ [][Next]_vars

-----------------------------------------------------------------------------
(* The claims about pivot_calibration, checked under SpecDispatch.         *)

\* The structural condition of the specification: a numpy array of exactly
\* three axes whose last two are 4 x 4.
WellShaped(tm) ==
    /\ tm.ndarray
    /\ Len(tm.shape) = 3
    /\ tm.shape[2] = 4
    /\ tm.shape[3] = 4

IsShapeError(r) ==
    /\ r.kind = "raise"
    /\ r.exc = "ValueError"
    /\ r.msg \in {"tracking_matrices should have 4 rows per matrix",
                  "tracking_matrices should have 4 columns per matrix"}

\* C1: whatever the configuration, a numpy array that is not rank-3 with last
\* two dimensions 4 x 4 (arrays of rank 2 and of rank above 3 included) makes
\* pivot_calibration fail with the shape error (a ValueError), before the
\* method is looked at and before any solver runs.
C1_ShapeErrorWhateverTheMethod ==
    (pc = "done" /\ tracking_matrices.ndarray
                 /\ ~WellShaped(tracking_matrices))
        => (IsShapeError(outcome) /\ outcome.ran = "none")

\* The method the dispatcher reads.
MethodOf(config) ==
    IF config # None /\ "method" \in DOMAIN config THEN config["method"]
    ELSE "aos"

\* A field of the configuration, or the default the specification states.
FieldOr(config, key, default) ==
    IF key \in DOMAIN config THEN config[key] ELSE default

\* C2: for a well-shaped array, AOS runs exactly when the configuration is
\* absent or its method is "aos" (also when the key is missing), whatever the
\* RANSAC fields hold; RANSAC runs exactly when the method is "ransac", with
\* number_iterations 10, error_threshold 4, consensus_threshold 0.25 and
\* early_exit false for every missing field; every other method fails with a
\* ValueError that carries the method, and no solver runs.
C2_Routing ==
    (pc = "done" /\ WellShaped(tracking_matrices)) =>
        LET method == MethodOf(configuration)
        IN /\ (outcome.ran = "aos") <=> (method = "aos")
           /\ (outcome.ran = "ransac") <=> (method = "ransac")
           /\ method = "ransac" =>
                 /\ outcome.kind = "call"
                 /\ outcome.args =
                       [number_iterations |->
                            FieldOr(configuration, "number_iterations", 10),
                        error_threshold |->
                            FieldOr(configuration, "error_threshold", 4),
                        concensus_threshold |->
                            FieldOr(configuration, "consensus_threshold", 1),
                        early_exit |->
                            FieldOr(configuration, "early_exit", FALSE)]
           /\ method \notin {"aos", "ransac"} =>
                 /\ outcome.kind = "raise"
                 /\ outcome.exc = "ValueError"
                 /\ outcome.arg = method
                 /\ outcome.ran = "none"

\* C2 witness: a dictionary that names ransac and nothing else has been
\* routed to RANSAC with all four defaults.
C2_Witness ==
    /\ pc = "done"
    /\ WellShaped(tracking_matrices)
    /\ configuration # None
    /\ DOMAIN configuration = {"method"}
    /\ outcome.kind = "call"
    /\ outcome.args.number_iterations = 10
    /\ outcome.args.concensus_threshold = 1

-----------------------------------------------------------------------------
(* The claims about pivot_calibration_aos, checked under SpecAos.          *)

\* The singular values at or above 0.01 among those the svd returned.
KeptCount(s) == Cardinality({i \in DOMAIN s : s[i] >= RankThreshold})

SvdRan == pc = "done" /\ outcome.svd # <<>>

\* C3: pivot_calibration_aos returns a result only if exactly 6 of the
\* singular values of A are >= 0.01; with fewer it fails with the rank
\* ValueError and returns nothing, which is the case of every single-pose
\* array and of every array that repeats one rotation.
C3_RankGate ==
    /\ (pc = "done" /\ outcome.kind = "return")
           => (SvdRan /\ KeptCount(outcome.svd) = 6)
    /\ (SvdRan /\ KeptCount(outcome.svd) < 6)
           => /\ outcome.kind = "raise"
              /\ outcome.exc = "ValueError"
              /\ outcome.msg = "PivotCalibration: Failed. Rank < 6"
    /\ (pc = "done" /\ Cardinality(Range(tracking_matrices.poses)) = 1)
           => outcome.kind = "raise"

\* C3 witness: an array of MaxN poses that repeat one rotation has been
\* refused although its three leading singular values are kept.
C3_Witness ==
    /\ SvdRan
    /\ Len(tracking_matrices.poses) = MaxN
    /\ Cardinality(Range(tracking_matrices.poses)) = 1
    /\ KeptCount(outcome.svd) = 3
    /\ outcome.kind = "raise"

\* C10: the reciprocals that form x are taken after the singular values
\* below 0.01 have been zeroed, so no reciprocal of a singular value below
\* the threshold is ever formed: the solution step does not divide by the
\* unfiltered singular values.
C10_ReciprocalsAfterFilter ==
    SvdRan => \A i \in DOMAIN outcome.recip_of :
                  outcome.recip_of[i] >= RankThreshold

-----------------------------------------------------------------------------
(* The claims about pivot_calibration_with_ransac, checked under Spec.     *)

ValidParameters ==
    /\ number_iterations >= 1
    /\ error_threshold >= 0
    /\ concensus_threshold >= 0
    /\ concensus_threshold <= 4

\* A call the validation lets through on an array of at least three
\* well-shaped poses.
ValidCall ==
    /\ ValidParameters
    /\ WellShaped(tracking_matrices)
    /\ tracking_matrices.shape[1] >= minimum_matrices_required

Finished == pc = "done"

Returned == Finished /\ outcome.kind = "return"

RaisedAt(site) ==
    Finished /\ outcome.kind = "raise" /\ outcome.site = site

NoConsensusError ==
    /\ RaisedAt("finish")
    /\ outcome.exc = "ValueError"
    /\ outcome.msg = "Failed to find a model using RANSAC."

\* The iterations of the log that were scored with
\* inlier_fraction > consensus_threshold.
InlierCount(i) == Cardinality(log[i].inlier_indices)

ConsensusIterations ==
    {i \in DOMAIN log :
        /\ log[i].status = "scored"
        /\ 4 * InlierCount(i)
               > concensus_threshold * tracking_matrices.shape[1]}

\* The result of AOS on the poses of iteration i's inlier set.
RefitOf(i) == [solved_from |-> log[i].inlier_indices]

\* C4: the call fails with the no-consensus ValueError exactly when it uses
\* up its iterations without one of them having inlier_fraction above the
\* consensus threshold; when it uses them up otherwise it returns, and
\* whatever it returns, at the end or on early exit, is the AOS refit on the
\* inlier set of an iteration above the threshold, never the placeholders.
C4_NoConsensusOrRefit ==
    /\ NoConsensusError
           <=> /\ Finished
               /\ ValidParameters
               /\ tracking_matrices.ndarray
               /\ Len(log) = number_iterations
               /\ ConsensusIterations = {}
    /\ Returned
           => /\ outcome.value # None
              /\ \E i \in ConsensusIterations : outcome.value = RefitOf(i)
    /\ (Finished /\ ValidCall /\ Len(log) = number_iterations
          /\ ConsensusIterations # {} /\ ~RaisedAt("refit"))
           => Returned

\* C4 witness: an early exit has returned before the iterations were used up.
C4_Witness ==
    /\ Returned
    /\ early_exit
    /\ Len(log) < number_iterations
    /\ outcome.value = RefitOf(Len(log))

\* The earliest of the iterations above the consensus threshold that reach
\* the largest inlier count among them.
MaxCount == CHOOSE m \in {InlierCount(i) : i \in ConsensusIterations} :
                \A j \in ConsensusIterations : InlierCount(j) <= m

EarliestBest ==
    CHOOSE i \in ConsensusIterations :
        /\ InlierCount(i) = MaxCount
        /\ \A j \in ConsensusIterations :
               InlierCount(j) = MaxCount => i <= j

InLoop == pc \in {"loop", "score"}

BestIsEarliestMaximum ==
    (~early_exit /\ (InLoop \/ Returned)) =>
        IF ConsensusIterations = {}
        THEN best = None /\ highest_number_of_inliers = -1
        ELSE /\ best = RefitOf(EarliestBest)
             /\ highest_number_of_inliers = MaxCount

BestChangesOnlyUpwards ==
    (~early_exit /\ InLoop /\ pc' # "done") =>
        /\ highest_number_of_inliers' >= highest_number_of_inliers
        /\ best' # best =>
              /\ Len(log') = Len(log) + 1
              /\ Len(log') \in ConsensusIterations'
              /\ InlierCount(Len(log))' > highest_number_of_inliers
              /\ best' = RefitOf(Len(log))'

\* C5: without early exit, after any number of iterations the best model is
\* the refit of the earliest iteration that reaches the largest inlier count
\* among the iterations above the consensus threshold; it is replaced only
\* by an iteration above the threshold with a strictly larger count, an
\* equal count keeps the earlier model, and the best count never decreases.
C5_EarliestMaximumWins ==
    []BestIsEarliestMaximum /\ [][BestChangesOnlyUpwards]_vars

\* C5 witness: the second iteration reached the count of the first on other
\* poses, and the best model is still the first one's.
C5_Witness ==
    /\ ~early_exit
    /\ pc = "loop"
    /\ Len(log) = 2
    /\ ConsensusIterations = {1, 2}
    /\ InlierCount(1) = InlierCount(2)
    /\ log[1].inlier_indices # log[2].inlier_indices
    /\ best = RefitOf(1)

FirstConsensus ==
    CHOOSE i \in ConsensusIterations : \A j \in ConsensusIterations : i <= j

EarlyExitAtFirstConsensus ==
    ConsensusIterations # {} =>
        /\ Returned
        /\ Len(log) = FirstConsensus
        /\ samples_drawn = FirstConsensus
        /\ outcome.value = RefitOf(FirstConsensus)

AllIterationsPerformed ==
    /\ samples_drawn = number_iterations
    /\ Len(log) = number_iterations

\* C6 as stated: with early_exit the call returns at the first iteration
\* whose sample solves and whose inlier_fraction is above the threshold, with
\* the refit on that iteration's inliers and no later sample drawn; without
\* early_exit all number_iterations iterations are always performed.
C6_AsStated ==
    (Finished /\ ValidCall) =>
        IF early_exit THEN EarlyExitAtFirstConsensus
        ELSE AllIterationsPerformed

\* C6 amended: the same, for every call that the refit on the inlier subset
\* does not end with its own error.
C6_UnlessRefitRaises ==
    (Finished /\ ValidCall /\ ~RaisedAt("refit")) =>
        IF early_exit THEN EarlyExitAtFirstConsensus
        ELSE AllIterationsPerformed

\* C6 witness: an early exit at the first of several iterations.
C6_Witness ==
    /\ Finished
    /\ ValidCall
    /\ early_exit
    /\ number_iterations > 1
    /\ samples_drawn = 1
    /\ Returned
    /\ outcome.value = RefitOf(1)

RankError(r) ==
    r.kind = "raise" /\ r.msg = "PivotCalibration: Failed. Rank < 6"

FailedIterationLeavesBest ==
    (Len(log') = Len(log) + 1 /\ log'[Len(log')].status = "failed") =>
        /\ best' = best
        /\ highest_number_of_inliers' = highest_number_of_inliers
        /\ iter_counter' = iter_counter + 1
        /\ pc' = "loop"
        /\ outcome' = outcome

\* C7: the rank error of AOS on an iteration's 3-pose sample never leaves
\* the function: the iteration is logged as failed, the best model and best
\* count stay as they are and the loop goes on; a rank error reaches the
\* caller only from the refit on the inlier subset.
C7_SampleRankErrorAbsorbed ==
    /\ [](Finished /\ RankError(outcome) => outcome.site = "refit")
    /\ [][FailedIterationLeavesBest]_vars

\* C7 witness: a call on well-shaped poses whose first sample was
\* rank-deficient went on and returned a model.
C7_Witness ==
    /\ ValidCall
    /\ Returned
    /\ Len(log) >= 2
    /\ log[1].status = "failed"

\* C8: called with valid parameters and a numpy array that is not rank-3
\* with 4 x 4 matrices, pivot_calibration_with_ransac fails with the shape
\* error: the failure is neither absorbed as a failed iteration nor reported
\* as a no-consensus failure.  (Stated for arrays of three axes and at least
\* three poses, the arrays for which the dispatcher raises its ValueError.)
C8_ShapeErrorSurfaced ==
    (Finished /\ ValidParameters /\ tracking_matrices.ndarray
              /\ Len(tracking_matrices.shape) = 3
              /\ tracking_matrices.shape[1] >= minimum_matrices_required
              /\ ~WellShaped(tracking_matrices))
        => (IsShapeError(outcome) /\ log = <<>> /\ ~NoConsensusError)

====
